---- MODULE Spec2Model ----
(***************************************************************************)
(* Model of schvalidator/schematron.py: schema-kind detection, the         *)
(* validate call, the SVRL report walk with role resolution, the two       *)
(* optional sink writes and the exit code of process().                    *)
(*                                                                         *)
(* Optional Python values are encoded as sequences of length <= 1:         *)
(* None is << >> and a present value v is << v >>.  Text is a sequence of  *)
(* one-character strings so that str.strip() can be computed.              *)
(***************************************************************************)
EXTENDS Integers, Sequences, FiniteSets, TLC

VARIABLES schema, xmlOk, args, raiseExceptions, ROLEDICT, report,
          run, pc, raised, schtree, result, idx, fa, role, out, code, prev

vars == <<schema, xmlOk, args, raiseExceptions, ROLEDICT, report,
          run, pc, raised, schtree, result, idx, fa, role, out, code, prev>>

env == <<schema, xmlOk, args, raiseExceptions>>

----------------------------------------------------------------------------
(* Bounds *)

\* Largest number of child elements of the SVRL root that is explored.
MaxLen == 3

\* Number of consecutive invocations of process() on the same inputs.
MaxRuns == 2

----------------------------------------------------------------------------
(* Values *)

None == << >>

Some(v) == << v >>

\* common.py: the two root tags check4schematron compares against.
OLD_SCHEMA_TAG == "{http://www.ascc.net/xml/schematron}schema"

SCHEMA_TAG == "{http://purl.oclc.org/dsdl/schematron}schema"

\* svrl('fired-rule').text and svrl('failed-assert').text
FIRED_RULE == "{http://purl.oclc.org/dsdl/svrl}fired-rule"

FAILED_ASSERT == "{http://purl.oclc.org/dsdl/svrl}failed-assert"

\* common.py: role name -> logging level (logging.INFO .. logging.FATAL).
RoleDictInit == [r \in {"info", "warning", "error", "fatal"} |->
                   CASE r = "info" -> 20
                     [] r = "warning" -> 30
                     [] r = "error" -> 40
                     [] r = "fatal" -> 50]

----------------------------------------------------------------------------
(* The SVRL report: the children of svrl:schematron-output in document      *)
(* order.  Each child carries its tag, its role and location attributes and *)
(* its first child element (absent, without text, or with text).            *)

Element(t, r, l, c) == [tag |-> t, role |-> r, location |-> l, child |-> c]

FiredRule(r) == Element(FIRED_RULE, r, None, None)

FailedAssert(r, l, c) == Element(FAILED_ASSERT, r, l, c)

RuleRoles == {None, Some("fatal"), Some("bogus")}

AssertRoles == {None, Some("warning"), Some("")}

Text1 == <<" ", "m", " ">>

Text2 == <<"n">>

NoChild == None

NoText == Some(None)

\* fired-rule elements with each role, failed-assert elements with each role
\* and a message, one with a location, and the two kinds without a message
Elements ==
    {FiredRule(r) : r \in RuleRoles}
    \cup {FailedAssert(r, None, Some(Some(Text1))) : r \in AssertRoles}
    \cup {FailedAssert(None, Some("/doc/sect[1]"), Some(Some(Text2))),
          FailedAssert(None, None, NoChild),
          FailedAssert(Some("warning"), None, NoText)}

Reports(n) == UNION {[1..k -> Elements] : k \in 0..n}

----------------------------------------------------------------------------
(* Pure functions *)

Reverse(s) == [i \in 1..Len(s) |-> s[Len(s) + 1 - i]]

\* report.iter(tag): positions of the elements with that tag, document order
RECURSIVE iter(_, _, _)
iter(rep, tag, from) ==
    IF from > Len(rep) THEN << >>
    ELSE IF rep[from].tag = tag
         THEN <<from>> \o iter(rep, tag, from + 1)
         ELSE iter(rep, tag, from + 1)

\* fa.itersiblings(tag, preceding=True): the preceding siblings with that
\* tag, nearest first
itersiblings(rep, p, tag) ==
    SelectSeq(Reverse(SubSeq(rep, 1, p - 1)), LAMBDA e : e.tag = tag)

\* takes the fired-rule sibling that comes first in the document
extractrole_first(rep, p) ==
    LET sibs == itersiblings(rep, p, FIRED_RULE)
        inherited == IF sibs = << >> THEN None ELSE sibs[Len(sibs)].role
    IN IF rep[p].role = None THEN inherited ELSE rep[p].role

\* lets the inherited role win over the failed-assert's own
extractrole_inherited(rep, p) ==
    LET sibs == itersiblings(rep, p, FIRED_RULE)
        inherited == IF sibs = << >> THEN None ELSE sibs[1].role
    IN IF inherited = None THEN rep[p].role ELSE inherited

extractrole(rep, p) ==
    LET sibs == itersiblings(rep, p, FIRED_RULE)
        inherited == IF sibs = << >> THEN None ELSE sibs[1].role
    IN IF rep[p].role = None THEN inherited ELSE rep[p].role

role2level(dict, rolelevel) ==
    IF rolelevel # None /\ rolelevel[1] \in DOMAIN dict
    THEN Some(dict[rolelevel[1]])
    ELSE None

\* dict.pop in place of dict.get: the looked-up key is gone afterwards
DictAfterPop(dict, rolelevel) ==
    IF rolelevel = None THEN dict
    ELSE [k \in DOMAIN dict \ {rolelevel[1]} |-> dict[k]]

\* dict.get leaves the module-level dictionary as it is
DictAfterGet(dict, rolelevel) == dict

IsSpace(c) == c = " "

RECURSIVE lstrip(_)
lstrip(t) == IF t # << >> /\ IsSpace(Head(t)) THEN lstrip(Tail(t)) ELSE t

strip(t) == Reverse(lstrip(Reverse(lstrip(t))))

\* the two comparisons in the opposite order
Classify_swapped(roottag) ==
    IF roottag # SCHEMA_TAG THEN "NoISOSchematronFileError"
    ELSE IF roottag = OLD_SCHEMA_TAG THEN "OldSchematronError"
    ELSE "ok"

\* the branch check4schematron takes on a root tag
Classify(roottag) ==
    IF roottag = OLD_SCHEMA_TAG THEN "OldSchematronError"
    ELSE IF roottag # SCHEMA_TAG THEN "NoISOSchematronFileError"
    ELSE "ok"

\* lxml's Schematron.validate: true iff the report holds no failed-assert
EngineResult(rep) == iter(rep, FAILED_ASSERT, 1) = << >>

\* a failure code other than 200
ExitCode_one(res) == IF ~res THEN 1 ELSE 0

ExitCode(res) == IF ~res THEN 200 ELSE 0

\* the engine is built and run before the schema kind is looked at
AfterStep_engineFirst(step) ==
    CASE step = "parse" -> "Schematron"
      [] step = "Schematron" -> "validate"
      [] step = "validate" -> "check4schematron"
      [] step = "check4schematron" -> "save_reportfile"
      [] step = "save_reportfile" -> "save_xsltfile"
      [] step = "save_xsltfile" -> "process_result_svrl"
      [] step = "process_result_svrl" -> "summary"

\* the report is walked before the sinks are written
AfterStep_walkFirst(step) ==
    CASE step = "parse" -> "check4schematron"
      [] step = "check4schematron" -> "Schematron"
      [] step = "Schematron" -> "validate"
      [] step = "validate" -> "process_result_svrl"
      [] step = "process_result_svrl" -> "save_reportfile"
      [] step = "save_reportfile" -> "save_xsltfile"
      [] step = "save_xsltfile" -> "summary"

\* statement order of validate_sch() followed by the body of process()
AfterStep(step) ==
    CASE step = "parse" -> "check4schematron"
      [] step = "check4schematron" -> "Schematron"
      [] step = "Schematron" -> "validate"
      [] step = "validate" -> "save_reportfile"
      [] step = "save_reportfile" -> "save_xsltfile"
      [] step = "save_xsltfile" -> "process_result_svrl"
      [] step = "process_result_svrl" -> "summary"

----------------------------------------------------------------------------
(* Observable effects, in the order they happen *)

Event(k) == [kind |-> k, index |-> 0, location |-> None,
             message |-> << >>, level |-> 0]

Record(i, loc, text, lvl) == [kind |-> "record", index |-> i,
                              location |-> loc, message |-> text,
                              level |-> lvl]

Summary(lvl) == [Event("summary") EXCEPT !.level = lvl]

Raise(exc) == /\ pc' = "raised"
              /\ raised' = exc

----------------------------------------------------------------------------
(* Inputs *)

\* a schema file: not well-formed XML (None) or a document with a root tag
SchemaFiles == {None, Some(OLD_SCHEMA_TAG), Some(SCHEMA_TAG),
                Some("{http://purl.oclc.org/dsdl/schematron}pattern"),
                Some("{http://www.w3.org/1999/xhtml}html")}

ArgKeys == {"--report", "--store-xslt"}

Args == [ArgKeys -> {None, Some("out.xml")}]

FreshRun == /\ raised = "none"
            /\ schtree = None
            /\ result = None
            /\ idx = 0
            /\ fa = 0
            /\ role = None
            /\ out = << >>
            /\ code = None

\* process(args) is called by the host; no validation report exists yet
Init == /\ schema \in SchemaFiles
        /\ xmlOk \in BOOLEAN
        /\ report = << >>
        /\ args \in Args
        /\ raiseExceptions \in BOOLEAN
        /\ ROLEDICT = RoleDictInit
        /\ run = 1
        /\ pc = "parse"
        /\ prev = << >>
        /\ FreshRun

----------------------------------------------------------------------------
(* validate_sch *)

\* lines 97-103: parse the XML document
ParseDoc ==
    /\ pc = "parse"
    /\ IF xmlOk
       THEN pc' = AfterStep("parse") /\ UNCHANGED raised
       ELSE Raise("XMLSyntaxError")
    /\ UNCHANGED <<env, report, ROLEDICT, run, schtree, result, idx, fa, role,
                   out, code, prev>>

\* lines 71-83: parse the schema and look at its root tag
Check4Schematron ==
    /\ pc = "check4schematron"
    /\ IF schema = None
       THEN Raise("XMLSyntaxError") /\ UNCHANGED schtree
       ELSE IF Classify(schema[1]) # "ok"
            THEN Raise(Classify(schema[1])) /\ UNCHANGED schtree
            ELSE /\ schtree' = Some([root |-> schema[1]])
                 /\ pc' = AfterStep("check4schematron")
                 /\ UNCHANGED raised
    /\ UNCHANGED <<env, report, ROLEDICT, run, result, idx, fa, role, out,
                   code, prev>>

\* lines 108-111: construct the validation engine from the schema tree
Construct ==
    /\ pc = "Schematron"
    /\ out' = Append(out, Event("Schematron"))
    /\ pc' = AfterStep("Schematron")
    /\ UNCHANGED <<env, report, ROLEDICT, run, raised, schtree, result, idx,
                   fa, role, code, prev>>

\* lines 112-114: run the validation and return to process().  The engine
\* answers with a report tree; asked again about the same schema, document
\* and phase it answers with the same tree.
Validate ==
    /\ pc = "validate"
    /\ IF run = 1
       THEN report' \in Reports(MaxLen)
       ELSE UNCHANGED report
    /\ result' = Some(EngineResult(report'))
    /\ out' = Append(out, Event("validate"))
    /\ pc' = AfterStep("validate")
    /\ UNCHANGED <<env, ROLEDICT, run, raised, schtree, idx, fa, role, code,
                   prev>>

----------------------------------------------------------------------------
(* the sinks *)

\* lines 165-174
save_reportfile ==
    /\ pc = "save_reportfile"
    /\ out' = IF args["--report"] # None
              THEN Append(out, Event("write_report"))
              ELSE out
    /\ pc' = AfterStep("save_reportfile")
    /\ UNCHANGED <<env, report, ROLEDICT, run, raised, schtree, result, idx,
                   fa, role, code, prev>>

\* lines 184-190
save_xsltfile ==
    /\ pc = "save_xsltfile"
    /\ out' = IF args["--store-xslt"] # None
              THEN Append(out, Event("write_xslt"))
              ELSE out
    /\ pc' = AfterStep("save_xsltfile")
    /\ UNCHANGED <<env, report, ROLEDICT, run, raised, schtree, result, idx,
                   fa, role, code, prev>>

----------------------------------------------------------------------------
(* process_result_svrl *)

Asserts == iter(report, FAILED_ASSERT, 1)

\* lines 143-155: one iteration of the loop.  Logger.log raises TypeError
\* for a level that is not an integer when logging.raiseExceptions is set
\* and drops the call otherwise.
WalkStep ==
    /\ pc = "process_result_svrl"
    /\ idx < Len(Asserts)
    /\ LET p == Asserts[idx + 1]
           e == report[p]
           r == extractrole(report, p)
           level == role2level(ROLEDICT, r)
       IN /\ idx' = idx + 1
          /\ fa' = p
          /\ IF e.child = NoChild
             THEN /\ Raise("IndexError")
                  /\ role' = None
                  /\ UNCHANGED <<out, ROLEDICT>>
             ELSE IF e.child = NoText
             THEN /\ Raise("AttributeError")
                  /\ role' = None
                  /\ UNCHANGED <<out, ROLEDICT>>
             ELSE /\ role' = Some(r)
                  /\ ROLEDICT' = DictAfterGet(ROLEDICT, r)
                  /\ IF level = None
                     THEN IF raiseExceptions
                          THEN Raise("TypeError") /\ UNCHANGED out
                          ELSE UNCHANGED <<pc, raised, out>>
                     ELSE /\ out' = Append(out, Record(idx + 1, e.location,
                                               strip(e.child[1][1]), level[1]))
                          /\ UNCHANGED <<pc, raised>>
    /\ UNCHANGED <<env, report, run, schtree, result, code, prev>>

\* the loop is exhausted and process_result_svrl returns to process()
WalkExit ==
    /\ pc = "process_result_svrl"
    /\ idx = Len(Asserts)
    /\ pc' = AfterStep("process_result_svrl")
    /\ UNCHANGED <<env, report, ROLEDICT, run, raised, schtree, result, idx,
                   fa, role, out, code, prev>>

----------------------------------------------------------------------------
(* process *)

\* lines 208-213
Return ==
    /\ pc = "summary"
    /\ out' = Append(out, Summary(IF ~result[1] THEN 50 ELSE 20))
    /\ code' = Some(ExitCode(result[1]))
    /\ pc' = "returned"
    /\ UNCHANGED <<env, report, ROLEDICT, run, raised, schtree, result, idx,
                   fa, role, prev>>

Outcome == [raised |-> raised, result |-> result, out |-> out, code |-> code]

\* the host calls process(args) again with the same arguments
NextRun ==
    /\ pc \in {"returned", "raised"}
    /\ run < MaxRuns
    /\ run' = run + 1
    /\ prev' = Append(prev, Outcome)
    /\ pc' = "parse"
    /\ raised' = "none"
    /\ schtree' = None
    /\ result' = None
    /\ idx' = 0
    /\ fa' = 0
    /\ role' = None
    /\ out' = << >>
    /\ code' = None
    /\ UNCHANGED <<env, report, ROLEDICT>>

Next == \/ ParseDoc
        \/ Check4Schematron
        \/ Construct
        \/ Validate
        \/ save_reportfile
        \/ save_xsltfile
        \/ WalkStep
        \/ WalkExit
        \/ Return
        \/ NextRun

Spec == Init /\ [][Next]_vars

TypeOK == /\ pc \in {"parse", "check4schematron", "Schematron",
                     "validate", "save_reportfile", "save_xsltfile",
                     "process_result_svrl", "summary", "returned", "raised"}
          /\ idx \in 0..Len(Asserts)
          /\ run \in 1..MaxRuns

----------------------------------------------------------------------------
(* Properties *)

Records == SelectSeq(out, LAMBDA e : e.kind = "record")

Positions(k) == {i \in 1..Len(out) : out[i].kind = k}

WalkErrors == {"IndexError", "AttributeError", "TypeError"}

SchemaKindErrors == {"OldSchematronError", "NoISOSchematronFileError"}

Terminal == pc \in {"returned", "raised"}

WalkOver == \/ pc \in {"summary", "returned"}
            \/ pc = "raised" /\ raised \in WalkErrors

HasMessage(e) == e.child # NoChild /\ e.child # NoText

Recognized == {"info", "warning", "error", "fatal"}

Unmapped(r) == r = None \/ r[1] \notin Recognized

\* the failed-assert the loop has just handled, and whether extractrole ran
Acted == fa > 0 /\ role # None

\* the fired-rule siblings before position p
RulesBefore(p) == {j \in 1..(p - 1) : report[j].tag = FIRED_RULE}

Max(S) == CHOOSE x \in S : \A y \in S : y <= x

Min(S) == CHOOSE x \in S : \A y \in S : x <= y

\* C1 (as claimed): once the walk over a report with K failed-assert
\* elements is over, exactly K records were emitted, the i-th with index i
\* and the location and message of the i-th failed-assert.  Stated for
\* reports in which every failed-assert carries a message.
C1_IndexMonotonicity ==
    (WalkOver /\ \A i \in 1..Len(Asserts) : HasMessage(report[Asserts[i]]))
    => /\ Len(Records) = Len(Asserts)
       /\ \A i \in 1..Len(Records) :
            /\ Records[i].index = i
            /\ Records[i].location = report[Asserts[i]].location

\* C2 (as claimed): a failed-assert without a role of its own resolves to
\* the role of the nearest preceding fired-rule sibling that carries one,
\* and to no role only when no preceding fired-rule sibling carries one.
C2_InheritFromAnyRule ==
    (Acted /\ report[fa].role = None)
    => LET withRole == {j \in RulesBefore(fa) : report[j].role # None}
       IN role[1] = IF withRole = {} THEN None
                    ELSE report[Max(withRole)].role

\* C2 (amended): a failed-assert without a role of its own resolves to the
\* role attribute of the nearest preceding fired-rule sibling, which is
\* absent when that sibling has no role or when there is no such sibling.
C2_InheritFromNearestRule ==
    (Acted /\ report[fa].role = None)
    => role[1] = IF RulesBefore(fa) = {} THEN None
                 ELSE report[Max(RulesBefore(fa))].role

C2_Witness ==
    /\ Acted
    /\ report[fa].role = None
    /\ Cardinality(RulesBefore(fa)) = 2
    /\ report[Max(RulesBefore(fa))].role = Some("fatal")
    /\ report[Min(RulesBefore(fa))].role = Some("bogus")
    /\ role = Some(Some("fatal"))

\* C3 (as claimed): when the resolved role of a failed-assert is absent or
\* not a recognized role, the level is absent, the walk does not fail and
\* the record of that failed-assert is emitted.
C3_UnmappedSoftFail ==
    (Acted /\ Unmapped(role[1]))
    => /\ role2level(ROLEDICT, role[1]) = None
       /\ raised # "TypeError"
       /\ \E i \in 1..Len(Records) : Records[i].index = idx

\* C4: a failed-assert that carries a role attribute resolves to that
\* value, whatever the preceding fired-rule siblings carry.
C4_OwnRoleOverrides ==
    (Acted /\ report[fa].role # None) => role[1] = report[fa].role

C4_Witness ==
    /\ Acted
    /\ report[fa].role = Some("warning")
    /\ RulesBefore(fa) # {}
    /\ report[Max(RulesBefore(fa))].role = Some("fatal")
    /\ role = Some(Some("warning"))

\* C5: check4schematron has one outcome per root tag: the legacy tag raises
\* OldSchematronError and yields no tree, a tag that is neither the legacy
\* nor the ISO tag raises NoISOSchematronFileError, and the ISO tag raises
\* nothing and yields the parsed tree.
C5_SchemaKind ==
    (xmlOk /\ schema # None /\ pc \notin {"parse", "check4schematron"})
    => LET tag == schema[1]
       IN /\ tag = OLD_SCHEMA_TAG
               => /\ pc = "raised"
                  /\ raised = "OldSchematronError"
                  /\ schtree = None
          /\ tag \notin {OLD_SCHEMA_TAG, SCHEMA_TAG}
               => /\ pc = "raised"
                  /\ raised = "NoISOSchematronFileError"
                  /\ schtree = None
          /\ tag = SCHEMA_TAG
               => /\ raised \notin SchemaKindErrors \cup {"XMLSyntaxError"}
                  /\ schtree = Some([root |-> tag])

C5_Witness ==
    /\ schema = Some(OLD_SCHEMA_TAG)
    /\ pc = "raised"
    /\ raised = "OldSchematronError"

KindError(tag) == IF tag = OLD_SCHEMA_TAG THEN "OldSchematronError"
                  ELSE "NoISOSchematronFileError"

NotIso == schema # None /\ schema[1] # SCHEMA_TAG

\* C6 (as claimed): every run on a legacy or non-Schematron schema ends
\* with the schema-kind error, with no engine construction, validate call,
\* sink write or record before it and without an exit code.
C6_FailFastEveryRun ==
    (NotIso /\ Terminal)
    => /\ raised = KindError(schema[1])
       /\ out = << >>
       /\ code = None

\* C6 (amended): a run on a legacy or non-Schematron schema never
\* constructs the engine, validates, writes a sink, logs a record or
\* returns an exit code; it ends with the schema-kind error when the XML
\* document parses and with the document's parse error otherwise.
C6_FailFast ==
    NotIso
    => /\ out = << >>
       /\ code = None
       /\ pc \in {"parse", "check4schematron", "raised"}
       /\ Terminal => raised = IF xmlOk THEN KindError(schema[1])
                               ELSE "XMLSyntaxError"

C6_Witness ==
    /\ schema = Some(OLD_SCHEMA_TAG)
    /\ xmlOk
    /\ \A k \in ArgKeys : args[k] # None
    /\ pc = "raised"
    /\ raised = "OldSchematronError"
    /\ out = << >>

\* C7: process returns 0 exactly when the validation outcome was true and
\* 200 exactly when it was false, and nothing else; the fatal-level summary
\* line is the last thing logged before 200 is returned and is never logged
\* when 0 is returned.
C7_ExitCode ==
    /\ code # None => pc = "returned"
    /\ pc = "returned"
         => /\ code \in {Some(0), Some(200)}
            /\ result = Some(EngineResult(report))
            /\ code = Some(0) <=> result[1]
            /\ code = Some(200) <=> ~result[1]
            /\ code = Some(200) => out[Len(out)] = Summary(50)
            /\ code = Some(0)
                 => \A i \in Positions("summary") : out[i].level # 50

C7_Witness ==
    /\ pc = "returned"
    /\ code = Some(200)
    /\ Records # << >>
    /\ out[Len(out)] = Summary(50)

\* C8: a later run on the same inputs ends like the run before it: the
\* same error or none, the same validation outcome and the same sequence
\* of records.
C8_Idempotent ==
    (run > 1 /\ Terminal)
    => LET before == prev[run - 1]
       IN /\ before.raised = raised
          /\ before.result = result
          /\ SelectSeq(before.out, LAMBDA e : e.kind = "record") = Records

C8_Witness ==
    /\ run = 2
    /\ pc = "returned"
    /\ result = Some(FALSE)
    /\ Len(Records) = Len(Asserts)
    /\ Records # << >>

\* C9 (as claimed): when the j-th failed-assert is the first without a
\* message, the walk ends with an error at that element, the records 1..j-1
\* have been emitted and no other, and process neither logs the summary
\* line nor returns an exit code.
C9_MalformedAborts ==
    LET bad == {i \in 1..Len(Asserts) : ~HasMessage(report[Asserts[i]])}
    IN (bad # {} /\ WalkOver)
       => /\ pc = "raised"
          /\ raised \in {"IndexError", "AttributeError"}
          /\ idx = Min(bad)
          /\ Len(Records) = Min(bad) - 1
          /\ \A i \in 1..Len(Records) : Records[i].index = i
          /\ Positions("summary") = {}
          /\ code = None

Rank(k) == CASE k = "Schematron" -> 1
             [] k = "validate" -> 2
             [] k = "write_report" -> 3
             [] k = "write_xslt" -> 4
             [] k = "record" -> 5
             [] k = "summary" -> 6

WalkStarted == \/ Positions("record") # {}
               \/ Positions("summary") # {}
               \/ pc = "raised" /\ raised \in WalkErrors

\* C10: inside process the validate call comes before any sink write, the
\* report sink is written before the XSLT sink, each exactly when its path
\* is given, both before the first record, and the summary line comes after
\* the last record; a walk that aborts has left every requested sink
\* written.
C10_StepOrder ==
    /\ \A i, j \in 1..Len(out) :
         i < j => /\ Rank(out[i].kind) <= Rank(out[j].kind)
                  /\ Rank(out[i].kind) = Rank(out[j].kind)
                       => out[i].kind = "record"
    /\ Positions("write_report") # {} => args["--report"] # None
    /\ Positions("write_xslt") # {} => args["--store-xslt"] # None
    /\ Positions("write_report") \cup Positions("write_xslt") # {}
         => Positions("validate") # {}
    /\ WalkStarted
         => /\ args["--report"] # None => Positions("write_report") # {}
            /\ args["--store-xslt"] # None => Positions("write_xslt") # {}

C10_Witness ==
    /\ pc = "raised"
    /\ raised = "AttributeError"
    /\ Records # << >>
    /\ Positions("write_report") # {}
    /\ Positions("write_xslt") # {}

====
